---- MODULE Spec2Model ----
(***************************************************************************)
(* Model of the domain signal aggregation and scoring engine               *)
(* (backend/domain_scanner.py), of the analyze endpoint that drives it     *)
(* (backend/simple_api.py), of the web-archive analyzer                    *)
(* (backend/webarchive_analyzer.py) and of the LLM enrichment              *)
(* (backend/llm_analyzer.py).                                              *)
(*                                                                         *)
(* Python values are modelled as follows: str -> TLA+ string, list ->      *)
(* sequence, dict -> record, None / datetime -> the tagged records PyNone  *)
(* and PyDatetime(iso).  External collaborators (DNS resolver, WHOIS       *)
(* client, TLS socket) answer nondeterministically.                         *)
(***************************************************************************)
EXTENDS Integers, Sequences, FiniteSets, TLC

(***************************************************************************)
(* Bounds of the model.                                                    *)
(***************************************************************************)
\* longest domain list of one analyze request
MaxBatch == 2

(***************************************************************************)
(* Python values.                                                          *)
(***************************************************************************)
PyNone == [t |-> "None", v |-> ""]
PyDatetime(iso) == [t |-> "datetime", v |-> iso]
PyStr(str) == [t |-> "str", v |-> str]
PyBool(b) == [t |-> "bool", v |-> b]

\* bool(x) of a tagged value
Truthy(x) ==
  CASE x.t = "None" -> FALSE
    [] x.t = "bool" -> x.v
    [] x.t = "str" -> x.v # ""
    [] OTHER -> TRUE

\* the empty dict {}
EmptyDict == << >>

\* d.get(k) of a dict with a default for an absent key
Get(d, k, default) == IF k \in DOMAIN d THEN d[k] ELSE default

(***************************************************************************)
(* DomainScanner.__init__ : the two indicator phrase lists.                *)
(***************************************************************************)
available_indicators ==
  << "no match for", "not found", "no data found", "no entries found",
     "domain not found", "no object found", "no matching record",
     "status: free", "status: available", "is available for registration",
     "domain status: no object found", "no match!!", "not registered",
     "available for registration", "domain available", "available domain",
     "free domain", "domain free", "unregistered domain", "domain unregistered",
     "no match", "not found in database", "no matching record found",
     "domain name not found", "object does not exist", "no such domain",
     "domain status: available", "registration status: available",
     "state: available", "domain state: available", "available for purchase",
     "this domain is available", "domain is available", "can be registered",
     "eligible for registration", "free for registration", "open for registration",
     "ready for registration", "registration available", "status code: 210",
     "status code: 220", "response: 210", "response: 220" >>

unavailable_indicators ==
  << "registrar:", "registrant:", "creation date:", "updated date:",
     "expiration date:", "name server:", "nserver:", "status: registered",
     "status: active", "status: ok", "status: connect",
     "status: clienttransferprohibited", "status: servertransferprohibited",
     "domain status: registered", "domain status: active", "registration date:",
     "expiry date:", "registry expiry date:", "registrar registration expiration date:",
     "admin contact:", "tech contact:", "billing contact:", "dnssec:",
     "domain servers in listed order:", "registered domain", "registered on:",
     "expires on:", "last updated on:", "changed:", "holder:", "person:",
     "sponsoring registrar:", "whois server:", "referral url:", "domain name:",
     "registry domain id:", "registrar whois server:", "registrar url:",
     "registrar iana id:", "registrar abuse contact email:",
     "registrar abuse contact phone:", "reseller:", "domain status:",
     "name server", "dnssec: unsigned", "dnssec: signed" >>

(***************************************************************************)
(* str.lower() and the substring test  `indicator in text`.                *)
(***************************************************************************)
UpperAlphabet == "ABCDEFGHIJKLMNOPQRSTUVWXYZ"
LowerAlphabet == "abcdefghijklmnopqrstuvwxyz"

LowerChar(c) ==
  IF \E k \in 1..Len(UpperAlphabet) : SubSeq(UpperAlphabet, k, k) = c
  THEN LET k == CHOOSE j \in 1..Len(UpperAlphabet) : SubSeq(UpperAlphabet, j, j) = c
       IN  SubSeq(LowerAlphabet, k, k)
  ELSE c

RECURSIVE lower(_)
lower(s) ==
  IF Len(s) = 0 THEN ""
  ELSE LowerChar(SubSeq(s, 1, 1)) \o lower(SubSeq(s, 2, Len(s)))

\* Python `p in s` for strings
Contains(s, p) ==
  \E k \in 1..(Len(s) - Len(p) + 1) : SubSeq(s, k, k + Len(p) - 1) = p

\* lines 142, 145: any(indicator in text for indicator in indicators)
AnyIndicator(indicators, text) ==
  \E n \in 1..Len(indicators) : Contains(text, indicators[n])

(***************************************************************************)
(* The WHOIS collaborator.  A response object w of whois.whois(domain)     *)
(* carries str(w) as `text` and the attributes read on lines 131-136; an   *)
(* absent or None attribute is "" / PyNone / << >>.  `falsy` is bool(w)    *)
(* being False (an empty entry).                                           *)
(***************************************************************************)
WhoisObject(falsy, text, registrar, creation, expiration, updated, ns, status) ==
  [falsy |-> falsy, text |-> text, registrar |-> registrar,
   creation_date |-> creation, expiration_date |-> expiration,
   updated_date |-> updated, name_servers |-> ns, status |-> status]

W_Empty ==
  WhoisObject(TRUE, "", "", PyNone, PyNone, PyNone, << >>, << >>)
W_Registered ==
  WhoisObject(FALSE, "Domain Name: A.COM Registrar: R Inc. Creation Date: 1995",
              "R Inc.", PyDatetime("1995-08-14T04:00:00"),
              PyDatetime("2030-08-13T04:00:00"), PyDatetime("2024-08-14T07:01:34"),
              << "ns1.a.com" >>, << "ok" >>)
W_Available ==
  WhoisObject(FALSE, "No match for domain A.COM",
              "", PyNone, PyNone, PyNone, << >>, << >>)
W_Mixed ==
  WhoisObject(FALSE, "Creation Date: 1995 Status: Available",
              "", PyDatetime("1995-08-14T04:00:00"), PyNone, PyNone, << >>, << >>)
W_Unknown ==
  WhoisObject(FALSE, "Query rate limit exceeded",
              "", PyNone, PyNone, PyNone, << >>, << >>)

WhoisObjects == {W_Empty, W_Registered, W_Available, W_Mixed, W_Unknown}

\* the response of a registry that answers with the phrase p and nothing else
W_Phrase(p) == WhoisObject(FALSE, p, "", PyNone, PyNone, PyNone, << >>, << >>)

\* one such response for every phrase of the availability list
PhraseObjects ==
  { W_Phrase(available_indicators[n]) : n \in DOMAIN available_indicators }

\* Source lines of one attempt at which the collaborator may raise: the query
\* (127), str(w) (130) and the attribute reads (131-136); 0: no line raises.
WhoisFaultLines == {127, 130, 131, 132, 133, 134, 135, 136}

\* what one attempt can meet: a response object and the line that raises
\* (an empty response has nothing to raise after the query)
WhoisOutcomes ==
  { o \in [w : WhoisObjects, fault : {0} \cup WhoisFaultLines] :
      o.w.falsy => o.fault \in {0, 127} }

(***************************************************************************)
(* check_whois_info                                                        *)
(***************************************************************************)
\* lines 110-123
DefaultWhoisInfo ==
  [raw_data |-> "", registrar |-> "", creation_date |-> PyNone,
   expiration_date |-> PyNone, last_updated |-> PyNone,
   name_servers |-> << >>, status |-> << >>, registrant |-> "",
   admin_contact |-> "", tech_contact |-> "",
   is_registered |-> FALSE, is_available |-> FALSE]

\* the registration test run over the wrong phrase list
is_registered_WrongList(raw) == AnyIndicator(available_indicators, raw)

\* line 145
is_registered(raw) == AnyIndicator(unavailable_indicators, raw)

\* line 147 without `and not is_registered`
is_available_Unguarded(raw) == AnyIndicator(available_indicators, raw)

\* lines 142, 147
is_available(raw) ==
  AnyIndicator(available_indicators, raw) /\ ~ is_registered(raw)

\* lines 139-148 for every response text of the model, computed once
Classified ==
  [text \in { w.text : w \in WhoisObjects \cup PhraseObjects } |->
     LET raw == lower(text)
     IN  [raw_lower |-> raw, is_available |-> is_available(raw),
          is_registered |-> is_registered(raw)]]

\* lines 127-157, one iteration of the retry loop: the whois_info after the
\* iteration, the local raw_lower if line 139 assigned it (else ""), and
\* whether the iteration raised
WhoisAttempt(info, o) ==
  LET w    == o.w
      s130 == [info EXCEPT !.raw_data = w.text]
      s131 == [s130 EXCEPT !.registrar = w.registrar]
      s132 == [s131 EXCEPT !.creation_date = w.creation_date]
      s133 == [s132 EXCEPT !.expiration_date = w.expiration_date]
      s134 == [s133 EXCEPT !.last_updated = w.updated_date]
      s135 == [s134 EXCEPT !.name_servers = w.name_servers]
      s136 == [s135 EXCEPT !.status = w.status]
      s139 == Classified[s136.raw_data].raw_lower
      s148 == [s136 EXCEPT !.is_available = Classified[s136.raw_data].is_available,
                           !.is_registered = Classified[s136.raw_data].is_registered]
      Raised(i) == [info |-> i, raw_lower |-> "", raised |-> TRUE]
  IN  CASE o.fault = 127 -> Raised(info)
        [] o.fault = 0 /\ w.falsy -> [info |-> info, raw_lower |-> "", raised |-> FALSE]
        [] o.fault = 0 /\ ~ w.falsy -> [info |-> s148, raw_lower |-> s139, raised |-> FALSE]
        [] o.fault = 130 -> Raised(info)
        [] o.fault = 131 -> Raised(s130)
        [] o.fault = 132 -> Raised(s131)
        [] o.fault = 133 -> Raised(s132)
        [] o.fault = 134 -> Raised(s133)
        [] o.fault = 135 -> Raised(s134)
        [] o.fault = 136 -> Raised(s135)

(***************************************************************************)
(* check_ssl_certificate                                                   *)
(***************************************************************************)
\* lines 163-172
DefaultSslInfo ==
  [has_ssl |-> FALSE, issuer |-> "", subject |-> "", not_before |-> PyNone,
   not_after |-> PyNone, serial_number |-> "", version |-> "",
   signature_algorithm |-> ""]

\* what the TLS probe can meet: "raise" (the connection, the handshake or the
\* certificate retrieval faults or times out), "nocert" (the handshake
\* completes and the server presented no certificate), "cert" (the handshake
\* completes and the server presented a certificate)
SslOutcomes == {"raise", "nocert", "cert"}

\* line 177: context.verify_mode = ssl.CERT_NONE
VerifyMode == "CERT_NONE"

\* the decoded certificate of a server, with the keys lines 185-190 read
PeerCertificate ==
  [issuer |-> "CA", subject |-> "CN", notBefore |-> "Jan  1 00:00:00 2024 GMT",
   notAfter |-> "Jan  1 00:00:00 2025 GMT", serialNumber |-> "01", version |-> "3"]

\* line 181: ssl.SSLSocket.getpeercert() in its default non-binary form gives
\* the decoded certificate only if the handshake validated it; it is empty
\* when the certificate was not validated (verify mode CERT_NONE) and None
\* when the peer presented none, which are both falsy
getpeercert(verify_mode, outcome) ==
  IF outcome = "cert" /\ verify_mode # "CERT_NONE" THEN PeerCertificate ELSE EmptyDict

\* lines 184-190
SslInfoOf(cert) ==
  [DefaultSslInfo EXCEPT !.has_ssl = TRUE, !.issuer = Get(cert, "issuer", ""),
                         !.subject = Get(cert, "subject", ""),
                         !.not_before = PyStr(Get(cert, "notBefore", "")),
                         !.not_after = PyStr(Get(cert, "notAfter", "")),
                         !.serial_number = Get(cert, "serialNumber", ""),
                         !.version = Get(cert, "version", "")]

\* the test of line 183 lost: a completed handshake counts as a certificate
SslCheck_NoCertTest(outcome) ==
  IF outcome = "raise" THEN DefaultSslInfo
  ELSE SslInfoOf(getpeercert(VerifyMode, outcome))

\* lines 174-195
SslCheck(outcome) ==
  IF outcome = "raise" THEN DefaultSslInfo
  ELSE LET cert == getpeercert(VerifyMode, outcome)
       IN  IF cert # EmptyDict THEN SslInfoOf(cert) ELSE DefaultSslInfo

(***************************************************************************)
(* _calculate_quality_score and _generate_recommendations                  *)
(***************************************************************************)
Min(a, b) == IF a < b THEN a ELSE b

\* lines 292, 294, 296, 298, 303, 305, 307, 311: the weights
WeightNS == 20
WeightA == 20
\* the weight of line 298 taken off the score instead of added to it
WeightTXT_AsPenalty == 0 - 10
WeightTXT == 10
\* a weight copied from the neighbouring rule
WeightMX_AsTXT == WeightTXT
WeightMX == 15
WeightRegistrar == 10
WeightCreationDate == 10
WeightNameServers == 10
WeightSSL == 15

\* lines 287-311: the sum of the weights of the evidence present
EvidenceScore(analysis) ==
  LET dns   == analysis.dns_records
      whois == analysis.whois_info
  IN    (IF Get(dns, "ns_records", << >>) # << >> THEN WeightNS ELSE 0)
      + (IF Get(dns, "a_records", << >>) # << >> THEN WeightA ELSE 0)
      + (IF Get(dns, "mx_records", << >>) # << >> THEN WeightMX ELSE 0)
      + (IF Get(dns, "txt_records", << >>) # << >> THEN WeightTXT ELSE 0)
      + (IF Get(whois, "registrar", "") # "" THEN WeightRegistrar ELSE 0)
      + (IF Truthy(Get(whois, "creation_date", PyNone)) THEN WeightCreationDate ELSE 0)
      + (IF Get(whois, "name_servers", << >>) # << >> THEN WeightNameServers ELSE 0)
      + (IF Get(analysis.ssl_info, "has_ssl", FALSE) THEN WeightSSL ELSE 0)

\* the score returned without the clamp of line 313
calculate_quality_score_unclamped(analysis) == EvidenceScore(analysis)

\* lines 285-313
calculate_quality_score(analysis) == Min(EvidenceScore(analysis), 100)

R_Available  == "Domain is available for registration"
R_Registered == "Domain is already registered"
R_NoA        == "No A records found - domain may not be actively used"
R_NoSsl      == "No SSL certificate found - HTTPS not available"
R_Low        == "Low quality score - limited web presence"
R_High       == "High quality score - strong web presence"

\* the comparison of line 330 inverted
ScoreBand_Inverted(score) ==
  IF score > 50 THEN << R_Low >>
  ELSE IF score > 80 THEN << R_High >>
  ELSE << >>

\* the comparisons of lines 330 and 332 taking their boundary in
ScoreBand_Inclusive(score) ==
  IF score <= 50 THEN << R_Low >>
  ELSE IF score >= 80 THEN << R_High >>
  ELSE << >>

\* lines 330-333
ScoreBand(score) ==
  IF score < 50 THEN << R_Low >>
  ELSE IF score > 80 THEN << R_High >>
  ELSE << >>

\* the TLS rule evaluated before the A-record rule
generate_recommendations_TlsFirst(analysis) ==
  LET r1 == IF Truthy(analysis.is_available) THEN << R_Available >> ELSE << R_Registered >>
      r2 == IF Get(analysis.dns_records, "a_records", << >>) = << >>
            THEN << R_NoA >> ELSE << >>
      r3 == IF ~ Get(analysis.ssl_info, "has_ssl", FALSE) THEN << R_NoSsl >> ELSE << >>
      r4 == ScoreBand(analysis.quality_score)
  IN  r1 \o r3 \o r2 \o r4

\* lines 315-335
generate_recommendations(analysis) ==
  LET r1 == IF Truthy(analysis.is_available) THEN << R_Available >> ELSE << R_Registered >>
      r2 == IF Get(analysis.dns_records, "a_records", << >>) = << >>
            THEN << R_NoA >> ELSE << >>
      r3 == IF ~ Get(analysis.ssl_info, "has_ssl", FALSE) THEN << R_NoSsl >> ELSE << >>
      r4 == ScoreBand(analysis.quality_score)
  IN  r1 \o r2 \o r3 \o r4

(***************************************************************************)
(* The environment: the requested domains and how the external sources     *)
(* behave for each of them.  A source that is "up" answers every query     *)
(* with data, one that is "down" raises on every query, one that is        *)
(* "silent" answers every query with nothing (no records, an empty WHOIS   *)
(* entry, no certificate), and "any" leaves the outcome of every single    *)
(* query open; a "faulty" WHOIS source may in addition raise while its     *)
(* response object is read.  A "phrases" WHOIS source answers with one     *)
(* phrase of the availability list, after queries that may raise.          *)
(***************************************************************************)
Domains == {"a.com", "b.org"}
Profiles == {"any", "up", "down", "silent", "faulty", "phrases"}

\* the exception a collaborator raises (an instance of Exception)
Fault == "Exception"
NoExc == "none"

\* `except Exception` clauses that let the exception through
Catches_OnlyBare(clause, e) == clause = "bare"

\* an `except` clause catches the exception e: a bare `except:` catches
\* everything, `except Exception` every instance of Exception
Catches(clause, e) == clause = "bare" \/ (clause = "Exception" /\ e = Fault)

DnsKinds == << "NS", "A", "MX", "TXT", "CNAME" >>
SignatureKinds == << "NS", "A", "MX" >>

\* the key of dns_info that holds the answers of a record kind
DnsField(k) ==
  CASE k = "NS" -> "ns_records" [] k = "A" -> "a_records" [] k = "MX" -> "mx_records"
    [] k = "TXT" -> "txt_records" [] k = "CNAME" -> "cname_records"

\* the formatted answers of a successful dns.resolver.resolve(domain, k):
\* str(record), and "<preference> <exchange>" for MX
DnsRecords(k) ==
  CASE k = "NS" -> << "ns1.a.com." >> [] k = "A" -> << "93.184.216.34" >>
    [] k = "MX" -> << "10 mail.a.com." >> [] k = "TXT" -> << "v=spf1 -all" >>
    [] k = "CNAME" -> << "www.a.com." >>

DnsOutcomes == {"raise", "empty", "records"}

DnsOutcomesOf(profile) ==
  CASE profile = "up" -> {"records"} [] profile = "down" -> {"raise"}
    [] profile = "silent" -> {"empty"}
    [] OTHER -> DnsOutcomes
WhoisOutcomesOf(profile) ==
  CASE profile = "up" -> {[w |-> W_Registered, fault |-> 0]}
    [] profile = "down" -> {[w |-> W_Empty, fault |-> 127]}
    [] profile = "silent" -> {[w |-> W_Empty, fault |-> 0]}
    [] profile = "any" -> { o \in WhoisOutcomes : o.fault \in {0, 127, 130} }
    [] profile = "phrases" -> [w : PhraseObjects, fault : {0, 127}]
    [] OTHER -> WhoisOutcomes
SslOutcomesOf(profile) ==
  CASE profile = "up" -> {"cert"} [] profile = "down" -> {"raise"}
    [] profile = "silent" -> {"nocert"}
    [] OTHER -> SslOutcomes

(***************************************************************************)
(* State.                                                                  *)
(***************************************************************************)
VARIABLES
  pc,           \* the statement the single thread of control is at
  domain,       \* the domain argument of the running analyze_domain / fetcher call
  domains,      \* the request's domain list
  sources,      \* behaviour of the external sources, per domain
  results,      \* batch_analyze_domains: results
  idx,          \* batch_analyze_domains: position of the for loop (1-based)
  analysis,     \* analyze_domain: analysis
  exc,          \* the exception propagating out of the current call, if any
  dns_info,     \* check_dns_records: dns_info
  kind,         \* position in the sequence of DNS queries (1-based)
  whois_info,   \* check_whois_info: whois_info
  attempt,      \* check_whois_info: attempt
  raw_lower,    \* check_whois_info: raw_lower ("" while unassigned)
  max_retries,  \* check_whois_info: max_retries
  caller,       \* who called check_whois_info / check_ssl_certificate
  signatures,   \* check_domain_signatures: signatures
  clock,        \* number of datetime.now() readings so far
  calls,        \* external calls made by the running analyze_domain call
  db,           \* committed rows of table `domains`, by domain
  pending,      \* rows written by the open transaction
  save_idx,     \* analyze_domains: position of the save loop (1-based)
  response,     \* the HTTP response of the request
  archive,      \* analyze_webarchive: analysis
  domains_data, \* analyze_domains_with_llm: domains_data
  settings      \* rows of table `settings`, by key

vars == << pc, domain, domains, sources, results, idx, analysis, exc, dns_info, kind,
           whois_info, attempt, raw_lower, max_retries, caller, signatures, clock, calls,
           db, pending, save_idx, response, archive, domains_data, settings >>

\* line 108: the default of max_retries
DefaultMaxRetries == 3

\* lines 59-65
DefaultDnsInfo ==
  [ns_records |-> << >>, a_records |-> << >>, mx_records |-> << >>,
   txt_records |-> << >>, cname_records |-> << >>]

\* lines 245-255; the timestamp is the reading of the clock
NewAnalysis(name, now) ==
  [domain |-> name, timestamp |-> now, dns_records |-> EmptyDict,
   whois_info |-> EmptyDict, ssl_info |-> EmptyDict, signatures |-> << >>,
   is_available |-> PyNone, quality_score |-> 0, recommendations |-> << >>]

\* the for loop walking the list from its end
NextDomain_Reversed(ds, i) == ds[Len(ds) + 1 - i]

\* line 347: the domain the for loop takes in its i-th iteration
NextDomain(ds, i) == ds[i]

\* lines 339-345
NewResults(ds) ==
  [total_domains |-> Len(ds), processed |-> 0, successful |-> 0, failed |-> 0,
   domains |-> << >>]

NoCalls == [NS |-> 0, A |-> 0, MX |-> 0, TXT |-> 0, CNAME |-> 0,
            whois |-> 0, tls |-> 0, sleep |-> 0]
NoAnalysis == EmptyDict
NoRow == EmptyDict
NoResponse == EmptyDict
NoArchive == EmptyDict
NoSettings == EmptyDict

RECURSIVE SeqsUpTo(_, _)
\* all sequences over S of length at most n
SeqsUpTo(S, n) ==
  IF n = 0 THEN { << >> }
  ELSE LET shorter == SeqsUpTo(S, n - 1)
       IN  shorter \cup { Append(q, x) : q \in { r \in shorter : Len(r) = n - 1 }, x \in S }

\* the state in which a request has passed authentication and analyze_domains
\* is about to run
Init ==
  /\ domains \in SeqsUpTo(Domains, MaxBatch)
  /\ \/ Len(domains) = 1 /\ sources = [d \in Domains |-> "any"]
     \/ sources \in [Domains -> {"up", "down", "silent"}]
  /\ pc = "request"
  /\ domain = ""
  /\ results = NewResults(<< >>)
  /\ idx = 1
  /\ analysis = NoAnalysis
  /\ exc = NoExc
  /\ dns_info = DefaultDnsInfo
  /\ kind = 1
  /\ whois_info = DefaultWhoisInfo
  /\ attempt = 0
  /\ raw_lower = ""
  /\ max_retries = DefaultMaxRetries
  /\ caller = "analyze"
  /\ signatures = << >>
  /\ clock = 0
  /\ calls = NoCalls
  /\ db = [d \in Domains |-> NoRow]
  /\ pending = [d \in Domains |-> NoRow]
  /\ save_idx = 1
  /\ response = NoResponse
  /\ archive = NoArchive
  /\ domains_data = << >>
  /\ settings = NoSettings

(***************************************************************************)
(* The frame of the running analyze_domain call, and the control transfers *)
(* between it and the fetchers it calls.                                   *)
(***************************************************************************)
Frame ==
  [pc |-> pc, analysis |-> analysis, exc |-> exc, dns_info |-> dns_info,
   kind |-> kind, whois_info |-> whois_info, attempt |-> attempt,
   raw_lower |-> raw_lower,
   max_retries |-> max_retries, caller |-> caller, signatures |-> signatures,
   calls |-> calls]

Goto(n) ==
  /\ pc' = n.pc
  /\ analysis' = n.analysis
  /\ exc' = n.exc
  /\ dns_info' = n.dns_info
  /\ kind' = n.kind
  /\ whois_info' = n.whois_info
  /\ attempt' = n.attempt
  /\ raw_lower' = n.raw_lower
  /\ max_retries' = n.max_retries
  /\ caller' = n.caller
  /\ signatures' = n.signatures
  /\ calls' = n.calls

\* the locals of a fetcher die with its call
DropLocals(c) ==
  [c EXCEPT !.dns_info = DefaultDnsInfo, !.kind = 1,
            !.whois_info = DefaultWhoisInfo, !.attempt = 0, !.raw_lower = ""]

\* line 108: check_whois_info(domain) is entered by `who`
CallWhois(c, who) ==
  [DropLocals(c) EXCEPT !.pc = "whois", !.caller = who,
                        !.max_retries = DefaultMaxRetries]

\* line 161: check_ssl_certificate(domain) is entered by `who`
CallSsl(c, who) == [DropLocals(c) EXCEPT !.pc = "ssl", !.caller = who]

\* lines 268, 197-199: check_domain_signatures(domain) is entered
CallSignatures(c) ==
  [DropLocals(c) EXCEPT !.pc = "sig_dns", !.caller = "signatures",
                        !.signatures = << >>]

\* lines 239, 268: check_domain_signatures returns into analyze_domain
SignaturesReturn(c) ==
  [DropLocals(c) EXCEPT !.analysis.signatures = c.signatures,
                        !.signatures = << >>, !.caller = "analyze",
                        !.pc = "finish"]

\* an exception e leaves a fetcher: inside check_domain_signatures the clause
\* of line 236 is the next handler, else the clause of line 279
Unwind(c, e) ==
  IF c.caller = "signatures" /\ Catches("Exception", e)
  THEN SignaturesReturn(c)
  ELSE [DropLocals(c) EXCEPT !.signatures = << >>, !.caller = "analyze",
                             !.exc = e, !.pc = "a_return"]

\* lines 106, 259, 262: check_dns_records returns, check_whois_info is called
DnsReturn(c) ==
  CallWhois([c EXCEPT !.analysis.dns_records = c.dns_info], "analyze")

\* the chain of queries ending before the CNAME lookup
DnsNext_WithoutCname(c) ==
  IF c.kind < Len(DnsKinds) - 1 THEN [c EXCEPT !.kind = @ + 1] ELSE DnsReturn(c)

\* next of the five queries of check_dns_records
DnsNext(c) ==
  IF c.kind < Len(DnsKinds) THEN [c EXCEPT !.kind = @ + 1] ELSE DnsReturn(c)

\* line 159: check_whois_info returns, to line 262 (then 265), to line 227
\* (then 228-232), or to a direct caller, which receives whois_info
WhoisReturn(c) ==
  IF c.caller = "analyze"
  THEN CallSsl([c EXCEPT !.analysis.whois_info = c.whois_info], "analyze")
  ELSE IF c.caller = "top"
  THEN [c EXCEPT !.pc = "returned"]
  ELSE CallSsl([c EXCEPT !.signatures =
                   IF c.whois_info.is_registered THEN Append(@, "WHOIS") ELSE @],
               "signatures")

\* lines 195, 265, 268 / 195, 232-239: check_ssl_certificate returns
SslReturn(c, ssl_info) ==
  IF c.caller = "analyze"
  THEN CallSignatures([c EXCEPT !.analysis.ssl_info = ssl_info])
  ELSE SignaturesReturn([c EXCEPT !.signatures =
                            IF ssl_info.has_ssl THEN Append(@, "SSL") ELSE @])

\* next of the three queries of check_domain_signatures, then line 227
SignatureNext(c) ==
  IF c.kind < Len(SignatureKinds) THEN [c EXCEPT !.kind = @ + 1]
  ELSE CallWhois(c, "signatures")

apiVars == << db, pending, save_idx, response >>
batchVars == << results, idx >>
envVars == << domains, sources >>
\* state of the web-archive and LLM analyzers, which the scanner never touches
otherVars == << archive, domains_data, settings >>
scanVars == << domain, clock >>

(***************************************************************************)
(* Actions.                                                                *)
(***************************************************************************)
\* simple_api.py lines 432-438: the view reads the request and calls
\* batch_analyze_domains (domain_scanner.py lines 339-345)
analyze_domains ==
  /\ pc = "request"
  /\ IF domains = << >>
     THEN /\ response' = [status |-> 400, body |-> "No domains provided"]
          /\ pc' = "done"
          /\ UNCHANGED results
     ELSE /\ results' = NewResults(domains)
          /\ pc' = "for"
          /\ UNCHANGED response
  /\ idx' = 1
  /\ UNCHANGED << domain, analysis, exc, dns_info, kind, whois_info, attempt, raw_lower, max_retries,
                  caller, signatures, clock, calls, db, pending, save_idx >>
  /\ UNCHANGED << envVars, otherVars >>

\* lines 347-349, 243-255, 259, 59-65: the for loop takes the next domain and
\* enters analyze_domain, which enters check_dns_records; after the last
\* domain, line 363 returns to the view
batch_for ==
  /\ pc = "for"
  /\ IF idx <= Len(domains)
     THEN /\ domain' = NextDomain(domains, idx)
          /\ analysis' = NewAnalysis(NextDomain(domains, idx), clock)
          /\ clock' = clock + 1
          /\ calls' = NoCalls
          /\ pc' = "dns"
          /\ UNCHANGED save_idx
     ELSE /\ pc' = "save"
          /\ save_idx' = 1
          /\ UNCHANGED << domain, analysis, clock, calls >>
  /\ UNCHANGED << exc, dns_info, kind, whois_info, attempt, raw_lower, max_retries, caller,
                  signatures, db, pending, response >>
  /\ UNCHANGED << batchVars, envVars, otherVars >>

\* lines 67-106: one of the five queries of check_dns_records
check_dns_records ==
  /\ pc = "dns"
  /\ \E o \in DnsOutcomesOf(sources[domain]) :
       LET k  == DnsKinds[kind]
           c1 == [Frame EXCEPT !.calls[k] = @ + 1]
       IN  Goto(CASE o = "records" ->
                       DnsNext([c1 EXCEPT !.dns_info[DnsField(k)] = DnsRecords(k)])
                  [] o = "empty" -> DnsNext(c1)
                  [] o = "raise" ->
                       IF Catches("bare", Fault) THEN DnsNext(c1)
                       ELSE IF Catches("Exception", Fault) THEN DnsReturn(c1)
                       ELSE Unwind(c1, Fault))
  /\ UNCHANGED << scanVars, apiVars, batchVars, envVars, otherVars >>

\* line 125: range(max_retries) has no value left for the a-th iteration
\* (a counted from 0)
range_exhausted(a, m) == a >= m

\* lines 125-159: one iteration of the retry loop of check_whois_info
check_whois_info ==
  /\ pc = "whois"
  /\ IF range_exhausted(attempt, max_retries)
     THEN Goto(WhoisReturn(Frame))
     ELSE \E o \in WhoisOutcomesOf(sources[domain]) :
            LET r  == WhoisAttempt(whois_info, o)
                c1 == [Frame EXCEPT !.calls.whois = @ + 1, !.whois_info = r.info,
                                    !.raw_lower = r.raw_lower]
            IN  Goto(IF ~ r.raised THEN WhoisReturn(c1)
                     ELSE IF ~ Catches("Exception", Fault) THEN Unwind(c1, Fault)
                     ELSE IF attempt < max_retries - 1 THEN [c1 EXCEPT !.pc = "sleep"]
                     ELSE [c1 EXCEPT !.pc = "whois_failed"])
  /\ UNCHANGED << scanVars, apiVars, batchVars, envVars, otherVars >>

\* a delay one second short
RetryDelay_Short == 2 - 1

\* line 155: the seconds of the delay between two attempts
RetryDelay == 2

\* line 155: time.sleep(2), then the next iteration; calls.sleep is the time
\* slept so far, in seconds
whois_sleep ==
  /\ pc = "sleep"
  /\ Goto([Frame EXCEPT !.calls.sleep = @ + RetryDelay, !.attempt = @ + 1,
                        !.pc = "whois"])
  /\ UNCHANGED << scanVars, apiVars, batchVars, envVars, otherVars >>

\* lines 156-157: the last permitted attempt raised; the error is logged and
\* control goes back to line 125, where range(max_retries) is exhausted
whois_all_failed ==
  /\ pc = "whois_failed"
  /\ Goto([Frame EXCEPT !.attempt = @ + 1, !.pc = "whois"])
  /\ UNCHANGED << scanVars, apiVars, batchVars, envVars, otherVars >>

\* lines 161-195
check_ssl_certificate ==
  /\ pc = "ssl"
  /\ \E o \in SslOutcomesOf(sources[domain]) :
       LET c1 == [Frame EXCEPT !.calls.tls = @ + 1]
       IN  Goto(IF o = "raise" /\ ~ Catches("Exception", Fault)
                THEN Unwind(c1, Fault)
                ELSE SslReturn(c1, SslCheck(o)))
  /\ UNCHANGED << scanVars, apiVars, batchVars, envVars, otherVars >>

\* lines 201-224: one of the three queries of check_domain_signatures
check_domain_signatures ==
  /\ pc = "sig_dns"
  /\ \E o \in DnsOutcomesOf(sources[domain]) :
       LET k  == SignatureKinds[kind]
           c1 == [Frame EXCEPT !.calls[k] = @ + 1]
       IN  Goto(CASE o = "records" ->
                       SignatureNext([c1 EXCEPT !.signatures = Append(@, "DNS_" \o k)])
                  [] o = "empty" -> SignatureNext(c1)
                  [] o = "raise" ->
                       IF Catches("bare", Fault) THEN SignatureNext(c1)
                       ELSE Unwind(c1, Fault))
  /\ UNCHANGED << scanVars, apiVars, batchVars, envVars, otherVars >>

\* lines 271-277
analyze_finish ==
  /\ pc = "finish"
  /\ LET a1 == [analysis EXCEPT !.is_available = PyBool(analysis.whois_info.is_available)]
         a2 == [a1 EXCEPT !.quality_score = calculate_quality_score(a1)]
         a3 == [a2 EXCEPT !.recommendations = generate_recommendations(a2)]
     IN  Goto([Frame EXCEPT !.analysis = a3, !.pc = "a_return"])
  /\ UNCHANGED << scanVars, apiVars, batchVars, envVars, otherVars >>

\* lines 279-283: the except clause of analyze_domain, and its return
analyze_return ==
  /\ pc = "a_return"
  /\ IF exc # NoExc /\ Catches("Exception", exc)
     THEN Goto([Frame EXCEPT
                  !.analysis = [f \in DOMAIN analysis \cup {"error"} |->
                                  IF f = "error" THEN PyStr(exc) ELSE analysis[f]],
                  !.exc = NoExc, !.calls = NoCalls, !.pc = "append"])
     ELSE Goto([Frame EXCEPT !.calls = NoCalls, !.pc = "append"])
  /\ UNCHANGED << scanVars, apiVars, batchVars, envVars, otherVars >>

\* lines 349-350 / 352-358: the record, or the failure stub, is appended
batch_append ==
  /\ pc = "append"
  /\ IF exc = NoExc
     THEN /\ results' = [results EXCEPT !.domains = Append(@, analysis)]
          /\ pc' = "count"
          /\ UNCHANGED << clock, response >>
     ELSE IF Catches("Exception", exc)
     THEN /\ results' = [results EXCEPT !.domains =
                           Append(@, [domain |-> domain, error |-> PyStr(exc),
                                      timestamp |-> clock])]
          /\ clock' = clock + 1
          /\ pc' = "count"
          /\ UNCHANGED response
     ELSE /\ response' = [status |-> 500, body |-> "unhandled exception"]
          /\ pc' = "done"
          /\ UNCHANGED << results, clock >>
  /\ analysis' = NoAnalysis
  /\ UNCHANGED << domain, idx, exc, dns_info, kind, whois_info, attempt, raw_lower, max_retries,
                  caller, signatures, calls, db, pending, save_idx >>
  /\ UNCHANGED << envVars, otherVars >>

\* line 351 lost: a success is not counted
batch_count_SkipSuccess ==
  /\ pc = "count"
  /\ IF exc = NoExc
     THEN results' = results
     ELSE results' = [results EXCEPT !.failed = @ + 1]
  /\ exc' = NoExc
  /\ pc' = "processed"
  /\ UNCHANGED << domain, idx, analysis, dns_info, kind, whois_info, attempt, raw_lower, max_retries,
                  caller, signatures, clock, calls >>
  /\ UNCHANGED << apiVars, envVars, otherVars >>

\* line 351 / 359
batch_count ==
  /\ pc = "count"
  /\ IF exc = NoExc
     THEN results' = [results EXCEPT !.successful = @ + 1]
     ELSE results' = [results EXCEPT !.failed = @ + 1]
  /\ exc' = NoExc
  /\ pc' = "processed"
  /\ UNCHANGED << domain, idx, analysis, dns_info, kind, whois_info, attempt, raw_lower, max_retries,
                  caller, signatures, clock, calls >>
  /\ UNCHANGED << apiVars, envVars, otherVars >>

\* line 361 lost: the iteration ends without counting the item
batch_processed_NotCounted ==
  /\ pc = "processed"
  /\ results' = results
  /\ idx' = idx + 1
  /\ pc' = "for"
  /\ UNCHANGED << domain, analysis, exc, dns_info, kind, whois_info, attempt, raw_lower, max_retries,
                  caller, signatures, clock, calls >>
  /\ UNCHANGED << apiVars, envVars, otherVars >>

\* line 361
batch_processed ==
  /\ pc = "processed"
  /\ results' = [results EXCEPT !.processed = @ + 1]
  /\ idx' = idx + 1
  /\ pc' = "for"
  /\ UNCHANGED << domain, analysis, exc, dns_info, kind, whois_info, attempt, raw_lower, max_retries,
                  caller, signatures, clock, calls >>
  /\ UNCHANGED << apiVars, envVars, otherVars >>

(***************************************************************************)
(* simple_api.py, analyze_domains: persistence and response.               *)
(***************************************************************************)
\* json.dumps(whois_info) of the standard library raises TypeError on a
\* datetime value; str, list, bool and None are serializable
json_dumps_raises(info) ==
  \E f \in {"creation_date", "expiration_date", "last_updated"} :
     info[f].t = "datetime"

\* the text json.dumps produces for a serializable value
json_dumps(x) == [json |-> x]

\* lines 446-454: the row INSERT OR REPLACE writes for a result; a column the
\* statement does not name (description) is NULL in the new row
DomainRow(result) ==
  [domain |-> result.domain, quality_score |-> result.quality_score,
   dns_records |-> json_dumps(result.dns_records),
   whois_data |-> json_dumps(result.whois_info),
   ssl_info |-> json_dumps(result.ssl_info),
   is_available |-> result.is_available,
   description |-> PyNone]

\* simple_api.py lines 444-454: one iteration of the save loop
save_result ==
  /\ pc = "save"
  /\ IF save_idx <= Len(results.domains)
     THEN LET result == results.domains[save_idx]
          IN  IF "error" \notin DOMAIN result
              THEN IF json_dumps_raises(result.whois_info)
                   THEN /\ response' = [status |-> 500, body |-> "unhandled exception"]
                        /\ pending' = [d \in Domains |-> NoRow]
                        /\ pc' = "done"
                        /\ UNCHANGED save_idx
                   ELSE /\ pending' = [pending EXCEPT ![result.domain] = DomainRow(result)]
                        /\ save_idx' = save_idx + 1
                        /\ UNCHANGED << pc, response >>
              ELSE /\ save_idx' = save_idx + 1
                   /\ UNCHANGED << pc, pending, response >>
     ELSE /\ pc' = "commit"
          /\ UNCHANGED << save_idx, pending, response >>
  /\ UNCHANGED << db, domain, analysis, exc, dns_info, kind, whois_info, attempt,
                  raw_lower, max_retries, caller, signatures, clock, calls >>
  /\ UNCHANGED << batchVars, envVars, otherVars >>

\* simple_api.py lines 456-459: commit, close, jsonify(results)
commit_and_respond ==
  /\ pc = "commit"
  /\ db' = [d \in Domains |-> IF pending[d] # NoRow THEN pending[d] ELSE db[d]]
  /\ pending' = [d \in Domains |-> NoRow]
  /\ response' = [status |-> 200, body |-> results]
  /\ pc' = "done"
  /\ UNCHANGED << save_idx, domain, analysis, exc, dns_info, kind, whois_info, attempt,
                  raw_lower, max_retries, caller, signatures, clock, calls >>
  /\ UNCHANGED << batchVars, envVars, otherVars >>

Next ==
  \/ analyze_domains
  \/ batch_for
  \/ check_dns_records
  \/ check_whois_info
  \/ whois_sleep
  \/ whois_all_failed
  \/ check_ssl_certificate
  \/ check_domain_signatures
  \/ analyze_finish
  \/ analyze_return
  \/ batch_append
  \/ batch_count
  \/ batch_processed
  \/ save_result
  \/ commit_and_respond

Spec == Init /\ [][Next]_vars

(***************************************************************************)
(* check_whois_info called on its own, with any max_retries up to the      *)
(* default and a source that may raise on any line of an attempt.          *)
(***************************************************************************)
InitWhois ==
  /\ domains = << >>
  /\ sources = [d \in Domains |-> "faulty"]
  /\ pc = "whois"
  /\ domain \in Domains
  /\ results = NewResults(<< >>)
  /\ idx = 1
  /\ analysis = NoAnalysis
  /\ exc = NoExc
  /\ dns_info = DefaultDnsInfo
  /\ kind = 1
  /\ whois_info = DefaultWhoisInfo
  /\ attempt = 0
  /\ raw_lower = ""
  /\ max_retries \in 0..DefaultMaxRetries
  /\ caller = "top"
  /\ signatures = << >>
  /\ clock = 0
  /\ calls = NoCalls
  /\ db = [d \in Domains |-> NoRow]
  /\ pending = [d \in Domains |-> NoRow]
  /\ save_idx = 1
  /\ response = NoResponse
  /\ archive = NoArchive
  /\ domains_data = << >>
  /\ settings = NoSettings

NextWhois == check_whois_info \/ whois_sleep \/ whois_all_failed

SpecWhois == InitWhois /\ [][NextWhois]_vars

\* check_whois_info(domain, max_retries) called on its own against a registry
\* that answers with a phrase of the availability list
InitPhrases ==
  /\ domains = << >>
  /\ sources = [d \in Domains |-> "phrases"]
  /\ pc = "whois"
  /\ domain \in Domains
  /\ results = NewResults(<< >>)
  /\ idx = 1
  /\ analysis = NoAnalysis
  /\ exc = NoExc
  /\ dns_info = DefaultDnsInfo
  /\ kind = 1
  /\ whois_info = DefaultWhoisInfo
  /\ attempt = 0
  /\ raw_lower = ""
  /\ max_retries \in 1..DefaultMaxRetries
  /\ caller = "top"
  /\ signatures = << >>
  /\ clock = 0
  /\ calls = NoCalls
  /\ db = [d \in Domains |-> NoRow]
  /\ pending = [d \in Domains |-> NoRow]
  /\ save_idx = 1
  /\ response = NoResponse
  /\ archive = NoArchive
  /\ domains_data = << >>
  /\ settings = NoSettings

SpecPhrases == InitPhrases /\ [][NextWhois]_vars

(***************************************************************************)
(* _calculate_quality_score and _generate_recommendations applied to every *)
(* combination of present and absent evidence: analyze_domain stands at    *)
(* line 271 with arbitrary fetcher results.                                *)
(***************************************************************************)
Choice(present, value, absent) == IF present THEN value ELSE absent

EvidenceRecords ==
  { [NewAnalysis("a.com", 0) EXCEPT
       !.dns_records =
          [ns_records |-> Choice(b[1], DnsRecords("NS"), << >>),
           a_records |-> Choice(b[2], DnsRecords("A"), << >>),
           mx_records |-> Choice(b[3], DnsRecords("MX"), << >>),
           txt_records |-> Choice(b[4], DnsRecords("TXT"), << >>),
           cname_records |-> << >>],
       !.whois_info =
          [DefaultWhoisInfo EXCEPT
             !.registrar = Choice(b[5], W_Registered.registrar, ""),
             !.creation_date = Choice(b[6], W_Registered.creation_date, PyNone),
             !.name_servers = Choice(b[7], W_Registered.name_servers, << >>),
             !.is_available = b[9],
             !.is_registered = ~ b[9]],
       !.ssl_info = Choice(b[8], SslInfoOf(PeerCertificate), DefaultSslInfo)] :
    b \in [1..9 -> BOOLEAN] }

InitScore ==
  /\ domains = << "a.com" >>
  /\ sources = [d \in Domains |-> "any"]
  /\ pc = "finish"
  /\ domain = "a.com"
  /\ results = NewResults(domains)
  /\ idx = 1
  /\ analysis \in EvidenceRecords
  /\ exc = NoExc
  /\ dns_info = DefaultDnsInfo
  /\ kind = 1
  /\ whois_info = DefaultWhoisInfo
  /\ attempt = 0
  /\ raw_lower = ""
  /\ max_retries = DefaultMaxRetries
  /\ caller = "analyze"
  /\ signatures = << >>
  /\ clock = 1
  /\ calls = NoCalls
  /\ db = [d \in Domains |-> NoRow]
  /\ pending = [d \in Domains |-> NoRow]
  /\ save_idx = 1
  /\ response = NoResponse
  /\ archive = NoArchive
  /\ domains_data = << >>
  /\ settings = NoSettings

NextScore == analyze_finish

SpecScore == InitScore /\ [][NextScore]_vars

(***************************************************************************)
(* webarchive_analyzer.py: WebArchiveAnalyzer.analyze_webarchive.  The     *)
(* Wayback Machine answers each of the four HTTP requests on its own.      *)
(***************************************************************************)
\* 14-digit timestamps of snapshots, as the CDX server prints them
Timestamps == {"19991231235959", "20080315120000", "20231120000000"}

Digits == "0123456789"

IsDigit(c) == \E k \in 1..Len(Digits) : SubSeq(Digits, k, k) = c

DigitValue(c) == (CHOOSE k \in 1..Len(Digits) : SubSeq(Digits, k, k) = c) - 1

RECURSIVE IsDecimal(_)
\* int(text) does not raise ValueError
IsDecimal(text) ==
  /\ Len(text) > 0
  /\ IsDigit(SubSeq(text, Len(text), Len(text)))
  /\ Len(text) > 1 => IsDecimal(SubSeq(text, 1, Len(text) - 1))

RECURSIVE int(_)
\* int(text) of a decimal numeral
int(text) ==
  IF Len(text) = 0 THEN 0
  ELSE 10 * int(SubSeq(text, 1, Len(text) - 1))
         + DigitValue(SubSeq(text, Len(text), Len(text)))

\* text[:4]
Prefix4(text) == SubSeq(text, 1, IF Len(text) < 4 THEN Len(text) ELSE 4)

\* the span counted without its last year
YearsCovered_Exclusive(first, last) == int(Prefix4(last)) - int(Prefix4(first))

\* lines 93-95
YearsCovered(first, last) == int(Prefix4(last)) - int(Prefix4(first)) + 1

\* lines 56-63
NewArchive(name) ==
  [domain |-> name, has_snapshots |-> FALSE, total_snapshots |-> 0,
   first_snapshot |-> PyNone, last_snapshot |-> PyNone, years_covered |-> 0]

\* what requests.get and response.json() can give: "raise" (connection fault,
\* timeout, a body that is not JSON or not of the expected shape), "status"
\* (a status code other than 200), or a body
HttpFaults == {"raise", "status"}

\* check_wayback_availability, lines 19-37: the value of 'available' in the
\* dict it returns, for a fault and for a body whose top-level key
\* 'available' is absent, false or true
AvailabilityOutcomes == HttpFaults \cup {"absent", "false", "true"}
check_wayback_availability(o) == o = "true"

\* get_snapshot_count, lines 41-52: the count for a fault and for a body with
\* num_pages = n
SnapshotCounts == {0, 7, 234}
CountOutcomes ==
  [k : HttpFaults, num_pages : {0}] \cup [k : {"body"}, num_pages : SnapshotCounts]
get_snapshot_count(o) == IF o.k \in HttpFaults THEN 0 ELSE o.num_pages

\* the directional queries, lines 72-89: a fault, an empty list, the header
\* row alone, or the header row and one snapshot row with its timestamp
CdxOutcomes == HttpFaults \cup {"empty", "header"} \cup Timestamps

\* lines 98-100: the except clause of analyze_webarchive
ArchiveError(a, e) ==
  [f \in DOMAIN a \cup {"error"} |-> IF f = "error" THEN PyStr(e) ELSE a[f]]

archiveFrame == << domain, domains, sources, results, idx, analysis, exc, dns_info,
                   kind, whois_info, attempt, raw_lower, max_retries, caller,
                   signatures, clock, calls, db, pending, save_idx, response,
                   domains_data, settings >>

\* lines 66-69: the availability check
wa_availability ==
  /\ pc = "wa_avail"
  /\ \E o \in AvailabilityOutcomes :
       /\ archive' = [archive EXCEPT !.has_snapshots = check_wayback_availability(o)]
       /\ pc' = IF check_wayback_availability(o) THEN "wa_count" ELSE "wa_returned"
  /\ UNCHANGED archiveFrame

\* line 70: the snapshot count
wa_count ==
  /\ pc = "wa_count"
  /\ \E o \in CountOutcomes :
       archive' = [archive EXCEPT !.total_snapshots = get_snapshot_count(o)]
  /\ pc' = "wa_first"
  /\ UNCHANGED archiveFrame

\* lines 72-80: the oldest snapshot
wa_first ==
  /\ pc = "wa_first"
  /\ \E o \in CdxOutcomes :
       IF o = "raise"
       THEN /\ archive' = IF Catches("Exception", Fault)
                          THEN ArchiveError(archive, Fault) ELSE archive
            /\ pc' = "wa_returned"
       ELSE /\ archive' = IF o \in Timestamps
                          THEN [archive EXCEPT !.first_snapshot = PyStr(o)]
                          ELSE archive
            /\ pc' = "wa_last"
  /\ UNCHANGED archiveFrame

\* lines 82-95: the latest snapshot, and the years covered
wa_last ==
  /\ pc = "wa_last"
  /\ \E o \in CdxOutcomes :
       IF o = "raise"
       THEN archive' = IF Catches("Exception", Fault)
                       THEN ArchiveError(archive, Fault) ELSE archive
       ELSE LET a1 == IF o \in Timestamps
                      THEN [archive EXCEPT !.last_snapshot = PyStr(o)]
                      ELSE archive
                first == a1.first_snapshot.v
                last  == a1.last_snapshot.v
            IN  IF Truthy(a1.first_snapshot) /\ Truthy(a1.last_snapshot)
                THEN IF IsDecimal(Prefix4(first)) /\ IsDecimal(Prefix4(last))
                     THEN archive' = [a1 EXCEPT !.years_covered =
                                                   YearsCovered(first, last)]
                     ELSE archive' = ArchiveError(a1, "ValueError")
                ELSE archive' = a1
  /\ pc' = "wa_returned"
  /\ UNCHANGED archiveFrame

InitArchive ==
  /\ domains = << >>
  /\ sources = [d \in Domains |-> "any"]
  /\ pc = "wa_avail"
  /\ domain \in Domains
  /\ results = NewResults(<< >>)
  /\ idx = 1
  /\ analysis = NoAnalysis
  /\ exc = NoExc
  /\ dns_info = DefaultDnsInfo
  /\ kind = 1
  /\ whois_info = DefaultWhoisInfo
  /\ attempt = 0
  /\ raw_lower = ""
  /\ max_retries = DefaultMaxRetries
  /\ caller = "top"
  /\ signatures = << >>
  /\ clock = 0
  /\ calls = NoCalls
  /\ db = [d \in Domains |-> NoRow]
  /\ pending = [d \in Domains |-> NoRow]
  /\ save_idx = 1
  /\ response = NoResponse
  /\ archive = NewArchive(domain)
  /\ domains_data = << >>
  /\ settings = NoSettings

NextArchive == wa_availability \/ wa_count \/ wa_first \/ wa_last

SpecArchive == InitArchive /\ [][NextArchive]_vars

(***************************************************************************)
(* llm_analyzer.py: LLMAnalyzer.analyze_domains_with_llm behind the view   *)
(* llm_analyze_domains of simple_api.py.  The rows of table `domains` were *)
(* written by init_db or by an earlier analyze request.                    *)
(***************************************************************************)
\* simple_api.py line 126: a row of the demonstration data
DemoRow(name) ==
  [domain |-> name, quality_score |-> 45, dns_records |-> PyNone,
   whois_data |-> PyNone, ssl_info |-> PyNone, is_available |-> PyNone,
   description |-> PyStr("Business domain with limited historical data.")]

\* a row the analyze view has written for a domain without any evidence
ScannedRow(name) ==
  DomainRow([NewAnalysis(name, 0) EXCEPT
               !.dns_records = DefaultDnsInfo, !.whois_info = DefaultWhoisInfo,
               !.ssl_info = DefaultSslInfo, !.is_available = PyBool(FALSE)])

\* the dicts a client may send in domains_data: a scanner record of a domain,
\* or a dict without the key 'domain'
DomainData ==
  { [domain |-> d, quality_score |-> 0, is_available |-> PyBool(FALSE)] : d \in Domains }
    \cup { EmptyDict }

\* lines 18-30 and simple_api.py line 143: the key is '' until it is configured
ApiKeys == {"", "sk-or-1"}
DefaultModel == "openai/gpt-3.5-turbo"

\* what the completion request of lines 109-118 can give: "raise" (transport
\* fault or timeout), "status" (a status code other than 200), "shape" (a
\* body without choices[0].message.content), or a body with that content,
\* which is a string or null
LlmContents == {PyStr("Strong brand potential."), PyStr(""), PyNone}
LlmOutcomes ==
  [k : {"raise", "status", "shape"}, content : {PyNone}]
    \cup [k : {"ok"}, content : LlmContents]

\* what sqlite can do in _save_llm_analysis: run the statement, or raise
SaveOutcomes == {"ok", "raise"}

\* SQL: x || y is NULL when an operand is NULL
SqlConcat(x, y) ==
  IF x = PyNone \/ y = PyNone THEN PyNone ELSE PyStr(x.v \o y.v)

\* SQL: COALESCE(x, y)
Coalesce(x, y) == IF x = PyNone THEN y ELSE x

\* lines 197-201: UPDATE domains SET description = COALESCE(description, '')
\* || '\n\nLLM Analysis:\n' || ? WHERE domain = ?
UpdateDescription(rows, name, text) ==
  [d \in Domains |->
     IF rows[d] # NoRow /\ rows[d].domain = name
     THEN [rows[d] EXCEPT !.description =
             SqlConcat(SqlConcat(Coalesce(@, PyStr("")),
                                 PyStr("\n\nLLM Analysis:\n")), text)]
     ELSE rows[d]]

\* lines 190-206: a failure of the statement is logged and swallowed
save_llm_analysis(rows, name, text, o) ==
  IF o = "ok" THEN UpdateDescription(rows, name, text) ELSE rows

llmFrame == << domains, sources, analysis, dns_info, kind, whois_info, attempt,
               raw_lower, max_retries, caller, signatures, clock, calls, pending,
               save_idx, archive, domains_data, settings >>

\* simple_api.py lines 463-470, llm_analyzer.py lines 36-54
llm_analyze_domains ==
  /\ pc = "llm_request"
  /\ IF domains_data = << >>
     THEN /\ response' = [status |-> 400, body |-> "No domains provided"]
          /\ pc' = "done"
          /\ UNCHANGED results
     ELSE IF Get(settings, "openrouter_api_key", "") = ""
     THEN /\ response' = [status |-> 200,
                          body |-> [error |-> "OpenRouter API key not configured",
                                    domains |-> << >>]]
          /\ pc' = "done"
          /\ UNCHANGED results
     ELSE /\ results' = NewResults(domains_data)
          /\ pc' = "llm_for"
          /\ UNCHANGED response
  /\ idx' = 1
  /\ UNCHANGED << domain, exc, db >>
  /\ UNCHANGED llmFrame

\* lines 56-70, 75-128: one iteration of the loop over domains_data
llm_analyze_single ==
  /\ pc = "llm_for"
  /\ idx <= Len(domains_data)
  /\ LET name  == Get(domains_data[idx], "domain", "unknown")
         model == Get(settings, "openrouter_model", DefaultModel)
     IN  /\ domain' = name
         /\ \E o \in LlmOutcomes, s \in SaveOutcomes :
              IF o.k = "ok"
              THEN /\ db' = save_llm_analysis(db, name, o.content, s)
                   /\ results' =
                        [results EXCEPT
                           !.domains = Append(@, [domain |-> name,
                                                  llm_analysis |-> o.content,
                                                  model_used |-> model,
                                                  status |-> "success"]),
                           !.successful = @ + 1, !.processed = @ + 1]
              ELSE /\ db' = db
                   /\ results' =
                        [results EXCEPT
                           !.domains = Append(@, [domain |-> name,
                                                  error |-> PyStr(Fault),
                                                  llm_analysis |-> PyNone]),
                           !.failed = @ + 1, !.processed = @ + 1]
  /\ idx' = idx + 1
  /\ UNCHANGED << pc, exc, response >>
  /\ UNCHANGED llmFrame

\* line 72, simple_api.py line 472
llm_return ==
  /\ pc = "llm_for"
  /\ idx > Len(domains_data)
  /\ response' = [status |-> 200, body |-> results]
  /\ pc' = "done"
  /\ UNCHANGED << domain, exc, db, results, idx >>
  /\ UNCHANGED llmFrame

InitLlm ==
  /\ domains = << >>
  /\ sources = [d \in Domains |-> "any"]
  /\ pc = "llm_request"
  /\ domain = ""
  /\ results = NewResults(<< >>)
  /\ idx = 1
  /\ analysis = NoAnalysis
  /\ exc = NoExc
  /\ dns_info = DefaultDnsInfo
  /\ kind = 1
  /\ whois_info = DefaultWhoisInfo
  /\ attempt = 0
  /\ raw_lower = ""
  /\ max_retries = DefaultMaxRetries
  /\ caller = "top"
  /\ signatures = << >>
  /\ clock = 0
  /\ calls = NoCalls
  /\ db \in { rows \in [Domains -> {NoRow} \cup { DemoRow(d) : d \in Domains }
                                        \cup { ScannedRow(d) : d \in Domains }] :
              \A d \in Domains : rows[d] # NoRow => rows[d].domain = d }
  /\ pending = [d \in Domains |-> NoRow]
  /\ save_idx = 1
  /\ response = NoResponse
  /\ archive = NoArchive
  /\ domains_data \in SeqsUpTo(DomainData, MaxBatch)
  /\ settings \in { [openrouter_api_key |-> key] : key \in ApiKeys }

NextLlm == llm_analyze_domains \/ llm_analyze_single \/ llm_return

SpecLlm == InitLlm /\ [][NextLlm]_vars

(***************************************************************************)
(* Properties.                                                             *)
(***************************************************************************)
\* batch_analyze_domains has returned to the view
BatchReturned == pc \in {"save", "commit", "done"} /\ domains # << >>

\* analyze_domain has returned `analysis` to line 349
AnalyzeReturned == pc = "append"

\* the records with a quality_score that the scanner has handed out so far
ReturnedRecords ==
  { results.domains[n] : n \in DOMAIN results.domains }
    \cup (IF AnalyzeReturned THEN {analysis} ELSE {})

\* C1: every record returned by analyze_domain, whatever the sources answered
\* or raised, has an integer quality_score between 0 and 100.
C1_ScoreInRange ==
  \A r \in ReturnedRecords :
     "quality_score" \in DOMAIN r => r.quality_score \in 0..100

\* C1 witness: a record with the seven evidence items the DNS and WHOIS
\* sources can give, the highest score the scanner hands out
C1_Witness ==
  /\ AnalyzeReturned
  /\ analysis.dns_records.ns_records # << >>
  /\ analysis.dns_records.a_records # << >>
  /\ analysis.dns_records.mx_records # << >>
  /\ analysis.dns_records.txt_records # << >>
  /\ analysis.whois_info.registrar # ""
  /\ analysis.whois_info.creation_date # PyNone
  /\ analysis.whois_info.name_servers # << >>
  /\ analysis.quality_score = 95

\* the evidence items present in a record, by the names of section 4.4
PresentEvidence(a) ==
  { e \in {"NS", "A", "MX", "TXT", "registrar", "creation", "nameservers", "TLS"} :
      CASE e = "NS" -> a.dns_records.ns_records # << >>
        [] e = "A" -> a.dns_records.a_records # << >>
        [] e = "MX" -> a.dns_records.mx_records # << >>
        [] e = "TXT" -> a.dns_records.txt_records # << >>
        [] e = "registrar" -> a.whois_info.registrar # ""
        [] e = "creation" -> a.whois_info.creation_date # PyNone
        [] e = "nameservers" -> a.whois_info.name_servers # << >>
        [] e = "TLS" -> a.ssl_info.has_ssl }

TableWeight(e) ==
  CASE e \in {"NS", "A"} -> 20
    [] e \in {"MX", "TLS"} -> 15
    [] OTHER -> 10

RECURSIVE TableSum(_)
TableSum(S) ==
  IF S = {} THEN 0
  ELSE LET e == CHOOSE x \in S : TRUE IN TableWeight(e) + TableSum(S \ {e})

\* C2: the score is min(S, 100), S the sum of the table weights of the evidence
\* present, for each of the 256 presence combinations; no evidence gives 0 and
\* all eight items give 100.
C2_ScoreIsClampedSum ==
  pc = "a_return" =>
    LET S == TableSum(PresentEvidence(analysis))
    IN  /\ analysis.quality_score = IF S > 100 THEN 100 ELSE S
        /\ PresentEvidence(analysis) = {} => analysis.quality_score = 0
        /\ Cardinality(PresentEvidence(analysis)) = 8 => analysis.quality_score = 100

\* C2 witness: the scorer has run on a record with only MX and TLS present
C2_Witness ==
  /\ pc = "a_return"
  /\ PresentEvidence(analysis) = {"MX", "TLS"}
  /\ analysis.quality_score = 30

\* C3: in every whois_info check_whois_info holds or returns, is_available
\* implies not is_registered.
C3_AvailableExcludesRegistered ==
  ~ (whois_info.is_available /\ whois_info.is_registered)

\* C3 witness: a successful attempt classified the domain as available
C3_Witness ==
  /\ pc = "returned"
  /\ raw_lower # ""
  /\ whois_info.is_available
  /\ ~ whois_info.is_registered

\* C4: when the lowercased text that was classified contains an unavailability
\* indicator, the result is is_registered and not is_available, whatever
\* availability indicators the text contains as well.
C4_RegistrationWins ==
  (pc = "returned" /\ AnyIndicator(unavailable_indicators, raw_lower)) =>
     whois_info.is_registered /\ ~ whois_info.is_available

\* C4 witness: a classified text with "creation date:" and "status: available"
C4_Witness ==
  /\ pc = "returned"
  /\ Contains(raw_lower, "creation date:")
  /\ Contains(raw_lower, "status: available")
  /\ whois_info.is_registered
  /\ ~ whois_info.is_available

\* C5: analyze_domain never raises: its return step leaves no exception
\* propagating, the record carries the queried domain and the timestamp taken
\* at entry, and an exception caught by its except clause is in `error`.
C5_AnalyzeNeverRaises ==
  [][pc = "a_return" =>
       /\ pc' = "append"
       /\ exc' = NoExc
       /\ analysis'.domain = domain
       /\ analysis'.timestamp = clock - 1
       /\ exc # NoExc => "error" \in DOMAIN analysis']_vars

\* C5 witness: analyze_domain has returned for a domain all of whose sources
\* raised on every call
C5_Witness ==
  /\ AnalyzeReturned
  /\ sources[domain] = "down"
  /\ exc = NoExc
  /\ analysis.domain = domain

\* the record of a domain none of whose sources could be reached
AllSourcesFailedRecord(name, now) ==
  [domain |-> name, timestamp |-> now,
   dns_records |-> [ns_records |-> << >>, a_records |-> << >>, mx_records |-> << >>,
                    txt_records |-> << >>, cname_records |-> << >>],
   whois_info |-> DefaultWhoisInfo, ssl_info |-> DefaultSslInfo,
   signatures |-> << >>, is_available |-> PyBool(FALSE), quality_score |-> 0,
   recommendations |-> << R_Registered, R_NoA, R_NoSsl, R_Low >>]

C7_FaultGivesFailedStub ==
  (BatchReturned /\ \E k \in DOMAIN domains : sources[domains[k]] = "down") =>
     /\ results.total_domains = Len(domains)
     /\ results.processed = Len(domains)
     /\ results.failed >= 1
     /\ \A k \in DOMAIN domains :
           sources[domains[k]] = "down" =>
              /\ results.domains[k].domain = domains[k]
              /\ "error" \in DOMAIN results.domains[k]

\* C8: the four counters are never negative, processed never exceeds
\* total_domains, and once the batch has returned processed equals
\* successful + failed and total_domains.
C8_Counters ==
  /\ results.total_domains \in Nat
  /\ results.processed \in Nat
  /\ results.successful \in Nat
  /\ results.failed \in Nat
  /\ results.processed <= results.total_domains
  /\ BatchReturned =>
       /\ results.processed = results.successful + results.failed
       /\ results.processed = results.total_domains

\* C8 witness: a batch of two domains has returned
C8_Witness ==
  /\ BatchReturned
  /\ Len(domains) = 2
  /\ results.processed = 2

\* C9: the result list has one entry per input domain in input order, entry n
\* carrying domain = input[n], and the domains are analyzed one after another
\* in input order.
C9_InputOrder ==
  /\ Len(results.domains) <= Len(domains)
  /\ \A n \in DOMAIN results.domains : results.domains[n].domain = domains[n]
  /\ BatchReturned => Len(results.domains) = Len(domains)
  /\ pc \in {"dns", "whois", "sleep", "whois_failed", "ssl", "sig_dns", "finish", "a_return", "append"} =>
       /\ domain = domains[idx]
       /\ Len(results.domains) = idx - 1

\* C9 witness: a batch that names the same domain twice has returned
C9_Witness ==
  /\ BatchReturned
  /\ Len(domains) = 2
  /\ domains[1] = domains[2]
  /\ Len(results.domains) = 2

\* C10, as claimed: an authenticated request with a non-empty domain list
\* ends in the JSON result, never in an unhandled exception.
C10_AlwaysStructuredResult ==
  (pc = "done" /\ domains # << >>) => response.status = 200

\* Python `x in q` for a list
InList(x, q) == \E n \in DOMAIN q : q[n] = x

\* C11, as claimed: in every record analyze_domain returns without an error
\* field, DNS_NS / DNS_A / DNS_MX are in signatures iff the record's
\* ns_records / a_records / mx_records are non-empty, WHOIS iff the record's
\* whois_info.is_registered, and SSL iff the record's ssl_info.has_ssl, also
\* when a source answers successive queries differently.
C11_SignaturesMatchRecord ==
  (AnalyzeReturned /\ "error" \notin DOMAIN analysis) =>
     /\ InList("DNS_NS", analysis.signatures)
          <=> (analysis.dns_records.ns_records # << >>)
     /\ InList("DNS_A", analysis.signatures)
          <=> (analysis.dns_records.a_records # << >>)
     /\ InList("DNS_MX", analysis.signatures)
          <=> (analysis.dns_records.mx_records # << >>)
     /\ InList("WHOIS", analysis.signatures) <=> analysis.whois_info.is_registered
     /\ InList("SSL", analysis.signatures) <=> analysis.ssl_info.has_ssl

\* C12, as claimed: when every WHOIS attempt of check_whois_info has raised,
\* at whatever line of the attempt, the structure it returns equals the
\* initial default in every field.
C12_ExhaustedGivesDefault ==
  pc = "whois_failed" => whois_info = DefaultWhoisInfo

(***************************************************************************)
(* check_whois_info runs to its return once called: the thread of control  *)
(* is never suspended for ever (time.sleep(2) returns).                    *)
(***************************************************************************)
SpecWhoisFair == SpecWhois /\ WF_vars(NextWhois)

\* check_whois_info has returned to a direct caller
WhoisReturned == pc = "returned"

\* at most max_retries queries; none at all for max_retries = 0, whose
\* result is the default structure
C13_AtMostMaxRetries ==
  /\ calls.whois <= max_retries
  /\ (WhoisReturned /\ max_retries = 0) =>
        calls.whois = 0 /\ whois_info = DefaultWhoisInfo

\* a query is attempt number `attempt` + 1 and is made once all attempts
\* before it have raised and been followed by their delay; nothing runs
\* after the return; an attempt that returns an empty response without
\* raising ends the call with the default structure
C13_AttemptOrder ==
  /\ calls'.whois # calls.whois =>
        /\ pc = "whois"
        /\ calls'.whois = calls.whois + 1
        /\ calls.whois = attempt
        /\ calls.sleep = RetryDelay * attempt
  /\ ~ WhoisReturned
  /\ (calls'.whois # calls.whois /\ WhoisReturned' /\ raw_lower' = "") =>
        whois_info' = DefaultWhoisInfo

\* C13, as claimed: check_whois_info makes at most max_retries query attempts,
\* starts attempt k+1 only after attempt k raised, makes no further attempt
\* once an attempt returns without raising (an empty response included, which
\* returns the default structure), and always terminates; max_retries = 0
\* makes no query and returns the default structure.
C13_BoundedRetries ==
  /\ [] C13_AtMostMaxRetries
  /\ [][C13_AttemptOrder]_vars
  /\ <> WhoisReturned

\* the delays of a call are whole, each follows a failed attempt that is not
\* the last permitted one, and a call all of whose attempts failed has slept
\* max_retries - 1 times 2 seconds
C20_DelaysCounted ==
  /\ calls.sleep <= 2 * attempt
  /\ pc = "sleep" => calls.whois = attempt + 1 /\ calls.whois < max_retries
  /\ pc = "whois_failed" =>
        calls.whois = max_retries /\ calls.sleep = 2 * (max_retries - 1)
  /\ (WhoisReturned /\ calls.whois = 0) => calls.sleep = 0
  /\ (WhoisReturned /\ calls.whois > 0) => calls.sleep <= 2 * (calls.whois - 1)

\* a delay lasts 2 seconds, starts right after a failed attempt and is
\* followed by the next attempt; the step that returns, and an attempt itself,
\* add no delay
C20_DelayBetweenAttempts ==
  /\ calls'.sleep # calls.sleep =>
        /\ calls'.sleep = calls.sleep + 2
        /\ pc = "sleep" /\ pc' = "whois"
        /\ calls.whois = attempt + 1
        /\ ~ range_exhausted(attempt', max_retries)
  /\ pc' = "sleep" => pc = "whois" /\ calls'.whois = calls.whois + 1
  /\ pc = "sleep" => calls'.sleep # calls.sleep
  /\ (pc = "whois" /\ pc' = "whois_failed") => calls'.whois = max_retries

\* C20: a delay of 2 seconds follows every failed attempt that is followed by
\* another attempt, and never the last permitted attempt or a non-raising
\* attempt; when all max_retries attempts fail there are exactly
\* max_retries - 1 delays, each between two consecutive attempts.
C20_FixedDelay ==
  /\ [] C20_DelaysCounted
  /\ [][C20_DelayBetweenAttempts]_vars

\* C20 witness: the third of three attempts has failed after two delays
C20_Witness ==
  /\ pc = "whois_failed"
  /\ max_retries = 3
  /\ calls.whois = 3
  /\ calls.sleep = 4

\* _generate_recommendations has returned into analyze_domain (line 277)
RecommendationsReturned == pc = "a_return" /\ exc = NoExc

\* the rule of _generate_recommendations an advisory comes from (0: none)
RuleOf(advisory) ==
  CASE advisory \in {R_Available, R_Registered} -> 1
    [] advisory = R_NoA -> 2
    [] advisory = R_NoSsl -> 3
    [] advisory \in {R_Low, R_High} -> 4
    [] OTHER -> 0

\* C14: the list _generate_recommendations returns starts with the available
\* advisory if is_available is true and with the already-registered advisory
\* otherwise, continues with at most one advisory of each of the rules no A
\* records, no TLS, score band, in that order, has 1 to 4 entries and repeats
\* no advisory.
C14_RecommendationOrder ==
  RecommendationsReturned =>
    LET r == analysis.recommendations
    IN  /\ Len(r) \in 1..4
        /\ r[1] = IF Truthy(analysis.is_available) THEN R_Available ELSE R_Registered
        /\ \A n \in DOMAIN r : RuleOf(r[n]) # 0
        /\ \A n, m \in DOMAIN r : n < m => RuleOf(r[n]) < RuleOf(r[m])
        /\ \A n, m \in DOMAIN r : n # m => r[n] # r[m]

\* C14 witness: an available domain without A records and TLS gets the four
\* advisories
C14_Witness ==
  /\ RecommendationsReturned
  /\ analysis.is_available = PyBool(TRUE)
  /\ analysis.recommendations = << R_Available, R_NoA, R_NoSsl, R_Low >>

\* C15: the limited-web-presence advisory is in the list iff quality_score is
\* below 50, the strong-web-presence advisory iff it is above 80, neither for
\* a score from 50 to 80 (both included), and never both.
C15_ScoreBands ==
  RecommendationsReturned =>
    LET r     == analysis.recommendations
        score == analysis.quality_score
    IN  /\ InList(R_Low, r) <=> score < 50
        /\ InList(R_High, r) <=> score > 80
        /\ score \in 50..80 => ~ InList(R_Low, r) /\ ~ InList(R_High, r)
        /\ ~ (InList(R_Low, r) /\ InList(R_High, r))

\* C15 witness: a record scored exactly 80 gets no advisory of the band rule
C15_Witness ==
  /\ RecommendationsReturned
  /\ analysis.quality_score = 80
  /\ ~ InList(R_Low, analysis.recommendations)
  /\ ~ InList(R_High, analysis.recommendations)

\* analyze_webarchive has returned `archive`
ArchiveReturned == pc = "wa_returned"

\* the year a snapshot timestamp of the model lies in
YearOfSnapshot(t) ==
  CASE t = PyStr("19991231235959") -> 1999
    [] t = PyStr("20080315120000") -> 2008
    [] t = PyStr("20231120000000") -> 2023

\* C16: analyze_webarchive returns years_covered = lastYear - firstYear + 1
\* when it recovered both first_snapshot and last_snapshot, the years being
\* the first four characters of the timestamps, and years_covered = 0 in every
\* other case; first "20080315120000" and last "20231120000000" give 16.
C16_YearsCovered ==
  ArchiveReturned =>
    /\ IF archive.first_snapshot # PyNone /\ archive.last_snapshot # PyNone
       THEN archive.years_covered =
              YearOfSnapshot(archive.last_snapshot)
                - YearOfSnapshot(archive.first_snapshot) + 1
       ELSE archive.years_covered = 0
    /\ (archive.first_snapshot = PyStr("20080315120000")
          /\ archive.last_snapshot = PyStr("20231120000000")) =>
         archive.years_covered = 16

\* C16 witness: the two directional queries gave 2008 and 2023
C16_Witness ==
  /\ ArchiveReturned
  /\ archive.first_snapshot = PyStr("20080315120000")
  /\ archive.last_snapshot = PyStr("20231120000000")
  /\ archive.years_covered = 16

\* the text of a description column, '' for NULL
TextOf(x) == IF x = PyNone THEN "" ELSE x.v

\* `new` is the description `old` with text appended to it
IsAppended(old, new) ==
  /\ new # PyNone
  /\ Len(new.v) > Len(TextOf(old))
  /\ SubSeq(new.v, 1, Len(TextOf(old))) = TextOf(old)

\* C17, as claimed: whatever the LLM call gives, a step of
\* analyze_domains_with_llm creates and deletes no row, leaves quality_score,
\* is_available and every other scanner column of every row unchanged, and
\* changes the table at most by appending text to the description of the
\* domain it analyzes.
C17_LlmOnlyAppendsDescription ==
  [][\A d \in Domains :
        /\ (db'[d] = NoRow) <=> (db[d] = NoRow)
        /\ db[d] # NoRow =>
             /\ db'[d].quality_score = db[d].quality_score
             /\ db'[d].is_available = db[d].is_available
             /\ [db'[d] EXCEPT !.description = PyNone]
                  = [db[d] EXCEPT !.description = PyNone]
             /\ db'[d] # db[d] =>
                  /\ d = domain'
                  /\ IsAppended(db[d].description, db'[d].description)]_vars

\* C18, as claimed: in every state between two statements of the loop of
\* batch_analyze_domains, processed equals the number of entries appended to
\* the domains list and equals successful + failed.
C18_CountersAccurateEverywhere ==
  /\ results.processed = Len(results.domains)
  /\ results.processed = results.successful + results.failed

\* C18, amended: processed equals the number of appended entries and
\* successful + failed between two iterations of the loop and while
\* analyze_domain runs; inside an iteration, from the append of line 350 to
\* the increment of line 361, processed is one less than the number of
\* entries, and successful + failed catches up with the entries at line 351.
C18_CountersAccurateBetweenItems ==
  /\ pc \notin {"count", "processed"} =>
       /\ results.processed = Len(results.domains)
       /\ results.processed = results.successful + results.failed
  /\ pc = "count" =>
       /\ results.processed = Len(results.domains) - 1
       /\ results.processed = results.successful + results.failed
  /\ pc = "processed" =>
       /\ results.processed = Len(results.domains) - 1
       /\ results.processed = results.successful + results.failed - 1

\* C18 witness: the loop stands between the first and the second item
C18_Witness ==
  /\ pc = "for"
  /\ Len(domains) = 2
  /\ idx = 2
  /\ results.processed = 1
  /\ Len(results.domains) = 1

\* check_dns_records is at its kind-th query: the kinds before it have been
\* queried once, in the order NS, A, MX, TXT, CNAME, whatever they gave, and
\* the kinds from it on not yet
C19_QueriedInOrder ==
  pc = "dns" =>
    /\ kind \in 1..Len(DnsKinds)
    /\ \A i \in 1..Len(DnsKinds) :
          calls[DnsKinds[i]] = IF i < kind THEN 1 ELSE 0

\* the dns_info a step of check_dns_records leaves: the local, or the value
\* returned into the record
DnsInfoAfter == IF pc' = "dns" THEN dns_info' ELSE analysis'.dns_records

\* a step of check_dns_records queries its kind, stores the records of an
\* answer and the empty list for a raised query or an answer without
\* records, keeps what the other kinds gave, raises nothing, and goes on to
\* the next kind or, after CNAME, returns all five lists
C19_QueryStep ==
  pc = "dns" =>
    LET k == DnsKinds[kind]
    IN  /\ calls'[k] = calls[k] + 1
        /\ exc' = NoExc
        /\ IF kind < Len(DnsKinds)
           THEN pc' = "dns" /\ kind' = kind + 1
           ELSE pc' = "whois" /\ caller' = "analyze"
        /\ DOMAIN DnsInfoAfter = DOMAIN DefaultDnsInfo
        /\ \A j \in 1..Len(DnsKinds) :
              j # kind => DnsInfoAfter[DnsField(DnsKinds[j])]
                            = dns_info[DnsField(DnsKinds[j])]
        /\ DnsInfoAfter[DnsField(k)] \in {<< >>, DnsRecords(k)}
        /\ sources[domain] \in {"down", "silent"} => DnsInfoAfter[DnsField(k)] = << >>
        /\ sources[domain] = "up" => DnsInfoAfter[DnsField(k)] = DnsRecords(k)

\* C19: check_dns_records attempts the five kinds NS, A, MX, TXT, CNAME in
\* that order on every call, whatever earlier queries raised; a raised query
\* and an answer without records both give the empty list, the result of a
\* kind that succeeded is never discarded, and the function never raises.
C19_DnsKindsIndependent ==
  /\ [] C19_QueriedInOrder
  /\ [][C19_QueryStep]_vars

\* C19 witness: check_dns_records has returned A records to analyze_domain
\* after all five queries, of which the NS query gave nothing
C19_Witness ==
  /\ pc = "whois"
  /\ caller = "analyze"
  /\ sources[domain] = "any"
  /\ calls.CNAME = 1
  /\ calls.whois = 0
  /\ analysis.dns_records.ns_records = << >>
  /\ analysis.dns_records.a_records # << >>
  /\ analysis.dns_records.cname_records = << >>

\* check_ssl_certificate takes its step: it was entered and now returns
SslStep == pc = "ssl"

\* the structure check_ssl_certificate hands to its caller in this step, seen
\* through what the caller does with it (line 265, or lines 233-234)
SslHandedBack(ssl_info) ==
  IF caller = "analyze"
  THEN analysis'.ssl_info = ssl_info
  ELSE analysis'.signatures =
         IF ssl_info.has_ssl THEN Append(signatures, "SSL") ELSE signatures

\* C21: check_ssl_certificate never raises; whenever the connection, the
\* handshake or the certificate retrieval faults or times out it returns
\* has_ssl = false with every other field at its default; has_ssl is true only
\* if the connection and the handshake completed and a non-empty certificate
\* was read.
C21_SslNeverRaises ==
  [][SslStep =>
       /\ exc' = NoExc
       /\ pc' # "a_return"
       /\ calls'.tls = calls.tls + 1
       /\ \E ssl_info \in {DefaultSslInfo, SslInfoOf(PeerCertificate)} :
            /\ SslHandedBack(ssl_info)
            /\ sources[domain] = "down" => ssl_info = DefaultSslInfo
            /\ ssl_info.has_ssl =>
                 /\ sources[domain] \notin {"down", "silent"}
                 /\ PeerCertificate # EmptyDict
                 /\ ssl_info = SslInfoOf(PeerCertificate)
            /\ ~ ssl_info.has_ssl => ssl_info = DefaultSslInfo]_vars

\* C21 witness: the probe of an unreachable domain has returned the default
\* structure to analyze_domain, which goes on to the signatures
C21_Witness ==
  /\ pc = "sig_dns"
  /\ sources[domain] = "down"
  /\ calls.tls = 1
  /\ analysis.ssl_info = DefaultSslInfo
  /\ exc = NoExc

\* C26: under the context of lines 175-177 check_ssl_certificate reports
\* has_ssl = true whenever the connection and the handshake succeed and the
\* server presented a certificate, so a domain serving HTTPS gets the TLS
\* weight and the SSL signature.
C26_HttpsDomainHasSsl ==
  (AnalyzeReturned /\ sources[domain] = "up" /\ "error" \notin DOMAIN analysis) =>
     /\ analysis.ssl_info.has_ssl
     /\ InList("SSL", analysis.signatures)
     /\ analysis.quality_score >= WeightSSL

\* C22: analyze_webarchive issues the availability check and the count check
\* as two independent calls: the count check and the oldest/latest queries are
\* performed whatever the outcome of the availability check, and a failure of
\* one does not suppress the other's result.
C22_CountWhateverAvailability ==
  [][/\ pc = "wa_avail" => pc' = "wa_count"
     /\ pc = "wa_count" =>
          /\ pc' = "wa_first"
          /\ archive'.has_snapshots = archive.has_snapshots]_vars

\* the eight evidence items of the scoring table
EvidenceItems == {"NS", "A", "MX", "TXT", "registrar", "creation", "nameservers", "TLS"}

\* C23 as stated: the TLS certificate plus any three of the other seven
\* evidence items already give quality_score 100.
C23_TlsPlusThreeSaturates ==
  (/\ pc = "a_return"
   /\ "TLS" \in PresentEvidence(analysis)
   /\ Cardinality(PresentEvidence(analysis) \ {"TLS"}) >= 3) =>
     analysis.quality_score = 100

\* C23: the weights sum to 110 before clamping, so the clamp acts only on the
\* record with all eight items; the score is 100 exactly when no item is
\* absent or the one absent item is one of the four of weight 10; the TLS
\* certificate plus exactly three of the other seven items gives a score
\* between 45 and 70.
C23_SaturationNeedsSeven ==
  pc = "a_return" =>
    LET present == PresentEvidence(analysis)
        absent  == EvidenceItems \ present
    IN  /\ TableSum(EvidenceItems) = 110
        /\ TableSum(present) > 100 <=> absent = {}
        /\ analysis.quality_score = 100 <=>
             \/ absent = {}
             \/ \E e \in {"TXT", "registrar", "creation", "nameservers"} : absent = {e}
        /\ ("TLS" \in present /\ Cardinality(present \ {"TLS"}) = 3) =>
             analysis.quality_score \in 45..70

\* C23 witness: the scorer has run on a record with the TLS certificate and
\* three of the other items, and gave 45
C23_Witness ==
  /\ pc = "a_return"
  /\ PresentEvidence(analysis) = {"TLS", "TXT", "registrar", "creation"}
  /\ analysis.quality_score = 45

\* C24: one call of analyze_domain makes at most max_retries (3) WHOIS query
\* attempts, at most one TLS connection, and at most one DNS query per record
\* kind for the domain.
C24_OneFetcherPassPerCall ==
  /\ calls.whois <= DefaultMaxRetries
  /\ calls.tls <= 1
  /\ \A n \in DOMAIN DnsKinds : calls[DnsKinds[n]] <= 1

\* check_whois_info has returned after classifying a response whose lowercased
\* text is exactly a phrase of the availability list
PhraseClassified ==
  /\ WhoisReturned
  /\ \E n \in DOMAIN available_indicators : raw_lower = available_indicators[n]

\* C25: every phrase of the availability list is effective: a WHOIS response
\* whose lowercased text is exactly the phrase is classified is_available =
\* true and is_registered = false.
C25_EveryPhraseEffective ==
  PhraseClassified => whois_info.is_available /\ ~ whois_info.is_registered

====
